---- MODULE Spec2Model ----
(***************************************************************************)
(* JoiningDataProvider (ojjoiningdataprovider.js): a data provider that    *)
(* fetches pages from a base provider and merges, under each join alias,   *)
(* the record a joined provider stores under the row's foreign key.        *)
(*                                                                         *)
(* JavaScript runs one synchronous section at a time, so one action is one *)
(* synchronous section: a public method up to the point it returns its     *)
(* promise, or one promise callback.                                       *)
(***************************************************************************)
EXTENDS Integers, Sequences, FiniteSets, TLC

\* Bounds of the model.
MaxRows == 2      \* rows held by the base provider
MaxAttrs == 2     \* entries of a caller's attributes list (SpecPart)

Range(s) == {s[i] : i \in DOMAIN s}

Min(a, b) == IF a < b THEN a ELSE b

(***************************************************************************)
(* JavaScript values.  Every value is a record of one shape so that any    *)
(* two can be compared: t is the type tag, v the numbers it holds, a the   *)
(* names it holds.  "unset" marks a property an object does not own;       *)
(* reading it yields undefined.                                            *)
(***************************************************************************)
Val(t, v, a) == [t |-> t, v |-> v, a |-> a]

Null == Val("null", <<>>, <<>>)

Undefined == Val("undef", <<>>, <<>>)

Unset == Val("unset", <<>>, <<>>)

Num(n) == Val("num", <<n>>, <<>>)

\* An array of field values; a null element is 0, an undefined one -1.
Code(val) == IF val.t = "num" THEN val.v[1] ELSE IF val.t = "null" THEN 0 ELSE -1

Arr(vals) == Val("array", [k \in DOMAIN vals |-> Code(vals[k])], <<>>)

\* x == null and x == undefined agree in JavaScript (loose equality).
IsNullish(val) == val.t \in {"null", "undef", "unset"}

\* seq[i] of a JavaScript array: undefined outside the array (1-based here).
At(seq, i) == IF i \in DOMAIN seq THEN seq[i] ELSE Undefined

(***************************************************************************)
(* Records (rows).  st is "row" for an object, "null" for a null row and   *)
(* "undef" for undefined; f maps every field name to its value or Unset.   *)
(***************************************************************************)
BaseFields == {"id", "a", "b", "c"}

AliasNames == {"dept", "mgr"}

Fields == BaseFields \cup AliasNames

NoFields == [x \in Fields |-> Unset]

NullRow == [st |-> "null", f |-> NoFields]

UndefRow == [st |-> "undef", f |-> NoFields]

MkRow(id, a, b) ==
    [st |-> "row",
     f |-> [x \in Fields |-> CASE x = "id" -> Num(id)
                               [] x = "a" -> a
                               [] x = "b" -> b
                               [] OTHER -> Unset]]

RowAt(seq, i) == IF i \in DOMAIN seq THEN seq[i] ELSE UndefRow

\* row[x]
GetField(row, x) == IF row.f[x].t = "unset" THEN Undefined ELSE row.f[x]

\* row[x] = val
SetField(row, x, val) == [row EXCEPT !.f[x] = val]

(***************************************************************************)
(* Attributes.  A caller's entry is a plain name or {name, attributes};    *)
(* what the provider stores and forwards is a string, a list of names,     *)
(* undefined or null.  All are records of one shape.                       *)
(***************************************************************************)
Plain(n) == [kind |-> "string", name |-> n, attributes |-> <<>>]

Nested(n, as) == [kind |-> "nested", name |-> n, attributes |-> as]

\* {name: n} with no attributes property
Bare(n) == [kind |-> "bare", name |-> n, attributes |-> <<>>]

ListA(as) == [kind |-> "list", name |-> "", attributes |-> as]

UndefA == [kind |-> "undef", name |-> "", attributes |-> <<>>]

NullA == [kind |-> "null", name |-> "", attributes |-> <<>>]

\* params.attributes: absent, or a list of entries
NoAttributes == [has |-> FALSE, list |-> <<>>]

Attributes(list) == [has |-> TRUE, list |-> list]

(***************************************************************************)
(* options.joins, in Object.keys order.  foreignKey "" and foreignKeys     *)
(* <<>> stand for an undefined property, joinedDataProvider 0 for null;    *)
(* defined = FALSE is an alias whose join info is undefined.               *)
(***************************************************************************)
Join(alias, fk, fks, tr, dp) ==
    [alias |-> alias, defined |-> TRUE, foreignKey |-> fk, foreignKeys |-> fks,
     transform |-> tr, joinedDataProvider |-> dp]

\* foreign key descriptors as _getJoinSpec stores them
FKScalar(n) == [kind |-> "scalar", fields |-> <<n>>]

FKComposite(ns) == [kind |-> "composite", fields |-> ns]

FKNull == [kind |-> "null", fields |-> <<>>]

GetJoinSpec_fk(joinInfo) ==
    IF ~joinInfo.defined THEN FKNull
    ELSE IF joinInfo.foreignKey # "" THEN FKScalar(joinInfo.foreignKey)
    ELSE IF joinInfo.foreignKeys # <<>> THEN FKComposite(joinInfo.foreignKeys)
    ELSE FKNull

GetJoinSpec_transform(joinInfo) ==
    IF joinInfo.defined /\ joinInfo.transform # "" THEN joinInfo.transform ELSE ""

GetJoinSpec_joinDP(joinInfo) ==
    IF joinInfo.defined THEN joinInfo.joinedDataProvider ELSE 0

\* _getJoinSpec: the four parallel arrays built by the constructor
GetJoinSpec(joins) ==
    [joinAlias |-> [i \in DOMAIN joins |-> joins[i].alias],
     fks |-> [i \in DOMAIN joins |-> GetJoinSpec_fk(joins[i])],
     transform |-> [i \in DOMAIN joins |-> GetJoinSpec_transform(joins[i])],
     joinDPs |-> [i \in DOMAIN joins |-> GetJoinSpec_joinDP(joins[i])]]

(***************************************************************************)
(* _mapJoinAttributes: null, or a Map from alias to what was requested     *)
(* under it.                                                               *)
(***************************************************************************)
NoMap == [x \in AliasNames |-> UndefA]

MapNull == [null |-> TRUE, has |-> {}, get |-> NoMap]

MapEmpty == [null |-> FALSE, has |-> {}, get |-> NoMap]

MapSet(m, alias, attributes) ==
    [null |-> FALSE, has |-> m.has \cup {alias}, get |-> [m.get EXCEPT ![alias] = attributes]]

(***************************************************************************)
(* _seperateBaseJoinAttributes(params): splits params.attributes into the  *)
(* list sent to the base provider and the Map of join attributes, then     *)
(* adds the foreign key fields to the list.                                *)
(***************************************************************************)
\* lines 456-463: the names alias and attributes of one entry
AttrAlias(attr) == attr.name

AttrAttributes(attr) ==
    IF attr.kind = "string" THEN attr
    ELSE IF attr.kind = "nested" THEN ListA(attr.attributes)
    ELSE UndefA

\* lines 464-470
IsJoinAlias(alias, joinAlias) == \E j \in DOMAIN joinAlias : alias = joinAlias[j]

\* lines 471-485: the concat of line 478 is dropped, its result is not kept
PutJoinAttr(m, alias, attributes) ==
    IF alias \in m.has
    THEN IF attributes.kind # "undef"
         THEN MapSet(m, alias, IF m.get[alias].kind = "undef" THEN ListA(<<>>) ELSE m.get[alias])
         ELSE m
    ELSE MapSet(m, alias, attributes)

\* arr[i] = x for a 0-based index i of a JavaScript array
StoreAt(arr, i, x) ==
    [k \in 1..(IF i + 1 > Len(arr) THEN i + 1 ELSE Len(arr)) |->
        IF k = i + 1 THEN x ELSE IF k <= Len(arr) THEN arr[k] ELSE UndefA]

\* lines 452-489, from entry i on; st = [base, iBase, map]
RECURSIVE ClassifyFrom(_, _, _, _)
ClassifyFrom(origAttr, joinAlias, i, st) ==
    IF i > Len(origAttr) THEN st
    ELSE LET attr == origAttr[i]
             alias == AttrAlias(attr)
             attributes == AttrAttributes(attr)
         IN  IF IsJoinAlias(alias, joinAlias)
             THEN ClassifyFrom(origAttr, joinAlias, i + 1,
                               [st EXCEPT !.map = PutJoinAttr(st.map, alias, attributes)])
             ELSE ClassifyFrom(origAttr, joinAlias, i + 1,
                               [st EXCEPT !.base = StoreAt(st.base, st.iBase, attributes),
                                          !.iBase = st.iBase + 1])

\* line 492: baseAttributes.includes(fk), by SameValueZero: an array is never
\* found, a string is found among the strings, null among the nulls
Includes(baseAttributes, fk) ==
    CASE fk.kind = "scalar" -> \E k \in DOMAIN baseAttributes :
                                   baseAttributes[k] = Plain(fk.fields[1])
      [] fk.kind = "null" -> \E k \in DOMAIN baseAttributes : baseAttributes[k].kind = "null"
      [] OTHER -> FALSE

\* lines 492-499 for one foreign key
AddForeignKey(st, fk) ==
    IF Includes(st.base, fk) THEN st
    ELSE IF fk.kind = "composite"
         THEN [st EXCEPT !.base = st.base \o [k \in DOMAIN fk.fields |-> Plain(fk.fields[k])]]
         ELSE [st EXCEPT !.base = StoreAt(st.base, st.iBase,
                                          IF fk.kind = "null" THEN NullA ELSE Plain(fk.fields[1])),
                         !.iBase = st.iBase + 1]

\* lines 490-500, from foreign key k on
RECURSIVE AddForeignKeysFrom(_, _, _)
AddForeignKeysFrom(fkList, k, st) ==
    IF k > Len(fkList) THEN st
    ELSE AddForeignKeysFrom(fkList, k + 1, AddForeignKey(st, fkList[k]))

\* the whole function: [base |-> the returned list, map |-> _mapJoinAttributes]
SeperateBaseJoinAttributes(origAttr, joinAlias, fkList) ==
    LET st0 == [base |-> <<>>, iBase |-> 0, map |-> MapEmpty]
        st1 == ClassifyFrom(origAttr, joinAlias, 1, st0)
        st2 == AddForeignKeysFrom(fkList, 1, st1)
    IN  [base |-> st2.base, map |-> st2.map]

(***************************************************************************)
(* _getFKValues: one lookup key per alias and row.                         *)
(***************************************************************************)
\* the caller's transform functions: "pair" is (o) => [o.a, o.b]
ApplyTransform(tr, transformParam) ==
    Arr(<<GetField(transformParam, "a"), GetField(transformParam, "b")>>)

\* lines 555-563: the object handed to the transform
TransformParam(row, fk) ==
    [st |-> "row",
     f |-> [x \in Fields |-> IF x \in Range(fk.fields) THEN GetField(row, x) ELSE Unset]]

\* a resolution that reads the fields of a composite key last to first
FKValue_Reversed(row, fk, tr) ==
    IF row.st = "row" /\ fk.kind # "null"
    THEN IF tr # ""
         THEN ApplyTransform(tr, TransformParam(row, fk))
         ELSE IF fk.kind = "composite"
              THEN Arr([k \in DOMAIN fk.fields |->
                           GetField(row, fk.fields[Len(fk.fields) + 1 - k])])
              ELSE GetField(row, fk.fields[1])
    ELSE Null

\* lines 553-580 for one row
FKValue(row, fk, tr) ==
    IF row.st = "row" /\ fk.kind # "null"
    THEN IF tr # ""
         THEN ApplyTransform(tr, TransformParam(row, fk))
         ELSE IF fk.kind = "composite"
              THEN Arr([k \in DOMAIN fk.fields |-> GetField(row, fk.fields[k])])
              ELSE GetField(row, fk.fields[1])
    ELSE Null

GetFKValues(baseData, fkList, trList) ==
    [i \in DOMAIN fkList |-> [j \in DOMAIN baseData |-> FKValue(baseData[j], fkList[i], trList[i])]]

(***************************************************************************)
(* A joined provider: stores records under keys.  fetchByKeys answers with *)
(* the Map of the requested keys it holds; a provider may also answer with *)
(* no result set at all.  Keys compare by value, arrays included.          *)
(***************************************************************************)
\* { keys } without an attributes property
AbsentA == [kind |-> "absent", name |-> "", attributes |-> <<>>]

\* the record provider dp returns for key under the attribute filter attr:
\* all its fields ("*") without a filter, else the named ones
JoinedRecord(dp, key, attr) ==
    Val("rec", <<dp, IF key.t = "array" THEN 1 ELSE 0>> \o key.v,
        IF attr.kind \in {"absent", "undef", "null"} THEN <<"*">>
        ELSE IF attr.kind = "string" THEN <<attr.name>>
        ELSE attr.attributes)

NoResponse == [st |-> "null", dp |-> 0, found |-> {}, attr |-> AbsentA]

JoinedFetchByKeys(store, dp, keys, attr) ==
    IF store.noResult
    THEN [st |-> "undef", dp |-> dp, found |-> {}, attr |-> attr]
    ELSE [st |-> "map", dp |-> dp, found |-> {k \in Range(keys) : k \in store.keys},
          attr |-> attr]

\* result.results.get(key) of a joined answer
JoinedItem(result, key) ==
    IF key \in result.found
    THEN [undef |-> FALSE, metadata |-> key, data |-> JoinedRecord(result.dp, key, result.attr)]
    ELSE [undef |-> TRUE, metadata |-> Undefined, data |-> Undefined]

(***************************************************************************)
(* _fetchByKeyResultsToArray(result, keyValues, metaData, data): writes    *)
(* one entry per key into the two arrays, or nothing at all when there is  *)
(* no result set or it is empty.  get[key] is result.results.get(key);     *)
(* nullData is null.                                                       *)
(***************************************************************************)
FetchByKeyResultsToArray(hasResults, size, get, keyValues, metaData, data, nullData) ==
    IF hasResults /\ size # 0
    THEN [metaData |->
            [i \in 1..(IF Len(keyValues) > Len(metaData) THEN Len(keyValues) ELSE Len(metaData)) |->
                IF i <= Len(keyValues)
                THEN IF ~get[keyValues[i]].undef THEN get[keyValues[i]].metadata ELSE Null
                ELSE metaData[i]],
          data |->
            [i \in 1..(IF Len(keyValues) > Len(data) THEN Len(keyValues) ELSE Len(data)) |->
                IF i <= Len(keyValues)
                THEN IF ~get[keyValues[i]].undef THEN get[keyValues[i]].data ELSE nullData
                ELSE data[i]]]
    ELSE [metaData |-> metaData, data |-> data]

\* _assignAliasData with the row index dropped: every row gets the first entry
AssignAliasData_FirstEntry(baseData, alias, aliasData) ==
    [i \in DOMAIN baseData |->
        IF baseData[i].st = "row"
        THEN SetField(baseData[i], alias, At(aliasData, 1))
        ELSE baseData[i]]

\* _assignAliasData(baseData, alias, aliasData)
AssignAliasData(baseData, alias, aliasData) ==
    [i \in DOMAIN baseData |->
        IF baseData[i].st = "row"
        THEN SetField(baseData[i], alias, At(aliasData, i))
        ELSE baseData[i]]

(***************************************************************************)
(* State.                                                                  *)
(***************************************************************************)
VARIABLES
    options,            \* options.joins given to the constructor
    joinAlias,          \* this._joinAlias
    fks,                \* this._fks
    transform,          \* this._transform
    joinDPs,            \* this._joinDPs
    baseRows,           \* the rows the base provider holds; row i has key i
    baseCaps,           \* what the base provider's getCapability reports
    stores,             \* the joined providers, by number
    mapJoinAttributes,  \* this._mapJoinAttributes
    pc,                 \* where each outstanding fetch call stands
    params,             \* the caller's params object of each call
    baseParams,         \* the attributes each call sent to the base provider
    iterPos,            \* rows the base iterator of a fetchFirst call has produced
    baseData,           \* the page being joined (data of _joiningData)
    metaData,           \* the metadata of the page's rows
    fkValues,           \* the lookup keys of the page, per alias
    promises,           \* the joined fetch issued per alias, if any
    dpCalls,            \* every call the fetch call made on a joined provider
    warned,             \* the aliases the fetch call logged a warning for
    result,             \* what the caller received
    baseDone,           \* the done flag of the base provider's result
    requested,          \* the attributes the caller passed, as passed
    overlapped,         \* another fetch call started while this one was outstanding
    settled,            \* the aliases whose joined fetch has resolved
    iterCalls,          \* next() calls on the joining iterator and on the base iterator
    query,              \* the last getCapability / isEmpty / containsKeys / getTotalSize
    dataProviderPromise,\* DeferredDataProvider: the promise given to the constructor
    dataProvider,       \* DeferredDataProvider: this['dataProvider']
    assigned,           \* DeferredDataProvider: how often this['dataProvider'] was assigned
    deferredCalls,      \* DeferredDataProvider: the calls made on the deferred provider
    innerCalls          \* DeferredDataProvider: the methods invoked on the resolved value

cfgVars == <<options, joinAlias, fks, transform, joinDPs, baseRows, baseCaps, stores>>

callVars == <<pc, params, baseParams, iterPos, baseData, metaData, fkValues, promises,
              dpCalls, warned, result, baseDone, requested, overlapped, settled, iterCalls>>

deferredVars == <<dataProviderPromise, dataProvider, assigned, deferredCalls, innerCalls>>

vars == <<cfgVars, mapJoinAttributes, callVars, query, deferredVars>>

\* The fetch calls that may be outstanding at once.
Calls == {"A", "B"}

(***************************************************************************)
(* The base provider: rows under the keys 1..Len(baseRows).                *)
(***************************************************************************)
Meta(key) == Val("meta", <<key>>, <<>>)

BaseHas(key) == key \in DOMAIN baseRows

\* baseDataProvider.fetchByOffset({offset, size})
BaseFetchByOffset(offset, size) ==
    LET last == Min(offset + size, Len(baseRows))
    IN  [metadata |-> [i \in 1..(IF last > offset THEN last - offset ELSE 0) |-> Meta(offset + i)],
         data |-> [i \in 1..(IF last > offset THEN last - offset ELSE 0) |-> baseRows[offset + i]],
         done |-> offset + size >= Len(baseRows)]

\* baseResults.results.get(key) of baseDataProvider.fetchByKeys
BaseItem(key) ==
    IF BaseHas(key)
    THEN [undef |-> FALSE, metadata |-> Meta(key), data |-> baseRows[key]]
    ELSE [undef |-> TRUE, metadata |-> Undefined, data |-> UndefRow]

BaseFound(keys) == {k \in Range(keys) : BaseHas(k)}

\* the base iterator's next(): a page of size rows, or the terminal result
BaseNext(pos, size) ==
    IF pos >= Len(baseRows)
    THEN [hasValue |-> FALSE, metadata |-> <<>>, data |-> <<>>, done |-> TRUE]
    ELSE [hasValue |-> TRUE,
          metadata |-> BaseFetchByOffset(pos, size).metadata,
          data |-> BaseFetchByOffset(pos, size).data,
          done |-> FALSE]

BaseIsEmpty == IF Len(baseRows) = 0 THEN "yes" ELSE "no"

BaseGetTotalSize == Len(baseRows)

BaseContainsKeys(keys) == BaseFound(keys)

BaseGetCapability(capabilityName) == baseCaps[capabilityName]

(***************************************************************************)
(* _joiningData, first half (lines 503-536): the short circuit, the lookup *)
(* keys, and one fetchByKeys per alias.  A null joined provider makes      *)
(* line 512 throw, after the calls of the aliases before it.               *)
(***************************************************************************)
NoPromise == [st |-> "null", dp |-> 0, keys |-> <<>>, attr |-> AbsentA]

PromiseOf(dp, keys, attr) == [st |-> "call", dp |-> dp, keys |-> keys, attr |-> attr]

\* line 504 without the test of the length
ShortCircuit_NoLengthTest(data) == FALSE

\* line 504
ShortCircuit(data) == Len(data) = 0

\* the first alias whose joined provider is null, or one past the last alias
FirstNullDP == 
    IF \E i \in DOMAIN joinDPs : joinDPs[i] = 0
    THEN CHOOSE i \in DOMAIN joinDPs : joinDPs[i] = 0 /\ \A j \in 1..(i - 1) : joinDPs[j] # 0
    ELSE Len(joinDPs) + 1

\* lines 522-534 with the lookup key of the first row only
IssueFor_FirstKey(i, keyValues, m) ==
    IF m.null THEN PromiseOf(joinDPs[i], <<keyValues[i][1]>>, AbsentA)
    ELSE IF joinAlias[i] \notin m.has THEN NoPromise
    ELSE PromiseOf(joinDPs[i], <<keyValues[i][1]>>, m.get[joinAlias[i]])

\* lines 522-534 for alias i
IssueFor(i, keyValues, m) ==
    IF m.null THEN PromiseOf(joinDPs[i], keyValues[i], AbsentA)
    ELSE IF joinAlias[i] \notin m.has THEN NoPromise
    ELSE PromiseOf(joinDPs[i], keyValues[i], m.get[joinAlias[i]])

\* lines 510-536 with the Map not consulted: every alias is fetched whole
IssuePromises_AllAliases(keyValues, m) ==
    [i \in 1..(FirstNullDP - 1) |-> PromiseOf(joinDPs[i], keyValues[i], AbsentA)]

IssuePromises(keyValues, m) ==
    [i \in 1..(FirstNullDP - 1) |-> IssueFor(i, keyValues, m)]

\* lines 512-517
Warns(i) == ~stores[joinDPs[i]].batch

DPCall(dp, method, keys, attr) == [dp |-> dp, method |-> method, keys |-> keys, attr |-> attr]

RECURSIVE DPCallsFrom(_, _)
DPCallsFrom(i, issued) ==
    IF i > Len(issued) THEN <<>>
    ELSE <<DPCall(joinDPs[i], "getCapability", <<>>, AbsentA)>>
         \o (IF issued[i].st = "call"
             THEN <<DPCall(issued[i].dp, "fetchByKeys", issued[i].keys, issued[i].attr)>>
             ELSE <<>>)
         \o DPCallsFrom(i + 1, issued)

(***************************************************************************)
(* _joiningData, second half (lines 537-547): the callback of Promise.all. *)
(* resultMetadata and resultData are declared once, before the loop over   *)
(* the aliases.                                                            *)
(***************************************************************************)
\* what Promise.all hands over for alias i
JoinResultOf(promise) ==
    IF promise.st = "null" THEN NoResponse
    ELSE JoinedFetchByKeys(stores[promise.dp], promise.dp, promise.keys, promise.attr)

\* line 541
MergesAlias(m, alias) == m.null \/ alias \in m.has

\* lines 540-545, from alias i on; st = [metaData, data, baseData]
RECURSIVE MergeFrom(_, _, _, _, _)
MergeFrom(i, results, keyValues, m, st) ==
    IF i > Len(results) THEN st
    ELSE IF MergesAlias(m, joinAlias[i])
         THEN LET arrays == FetchByKeyResultsToArray(
                                results[i].st = "map", Cardinality(results[i].found),
                                [k \in Range(keyValues[i]) |-> JoinedItem(results[i], k)],
                                keyValues[i], st.metaData, st.data, Null)
              IN  MergeFrom(i + 1, results, keyValues, m,
                            [metaData |-> arrays.metaData, data |-> arrays.data,
                             baseData |-> AssignAliasData(st.baseData, joinAlias[i], arrays.data)])
         ELSE MergeFrom(i + 1, results, keyValues, m, st)

MergeJoined(data, issued, keyValues, m) ==
    MergeFrom(1, [i \in DOMAIN issued |-> JoinResultOf(issued[i])], keyValues, m,
              [metaData |-> <<>>, data |-> <<>>, baseData |-> data]).baseData

(***************************************************************************)
(* What the caller receives.                                               *)
(***************************************************************************)
Item(metadata, data) == [metadata |-> metadata, data |-> data]

NoResult == [st |-> "none", keys |-> <<>>, items |-> <<>>, done |-> FALSE, err |-> ""]

Failure(err) == [st |-> "error", keys |-> <<>>, items |-> <<>>, done |-> FALSE, err |-> err]

Terminal == [st |-> "terminal", keys |-> <<>>, items |-> <<>>, done |-> TRUE, err |-> ""]

\* lines 336-341: one entry per requested key, in the order of params.keys
FetchByKeysResults(keys, md, joinData) ==
    [st |-> "ok", keys |-> keys,
     items |-> [i \in DOMAIN keys |-> Item(At(md, i), RowAt(joinData, i))],
     done |-> FALSE, err |-> ""]

\* lines 374-377 with the done flag not taken from the base result
FetchByOffsetResults_DoneTrue(n, md, joinData, done) ==
    [st |-> "ok", keys |-> <<>>,
     items |-> [i \in 1..n |-> Item(At(md, i), RowAt(joinData, i))],
     done |-> TRUE, err |-> ""]

\* lines 374-377: one item per item of the base result
FetchByOffsetResults(n, md, joinData, done) ==
    [st |-> "ok", keys |-> <<>>,
     items |-> [i \in 1..n |-> Item(At(md, i), RowAt(joinData, i))],
     done |-> done, err |-> ""]

\* lines 251-254: the base iterator's result with value.data replaced
IteratorResult(md, joinData, done) ==
    [st |-> "ok", keys |-> <<>>,
     items |-> [i \in DOMAIN md |-> Item(md[i], RowAt(joinData, i))],
     done |-> done, err |-> ""]

Assemble(p, n, md, joinData, done) ==
    CASE p.kind = "fetchByKeys" -> FetchByKeysResults(p.keys, md, joinData)
      [] p.kind = "fetchByOffset" -> FetchByOffsetResults(n, md, joinData, done)
      [] OTHER -> IteratorResult(md, joinData, done)

(***************************************************************************)
(* The fetch calls.  pc: "idle", "iter" (fetchFirst returned its iterable), *)
(* "basePending" (the base fetch is outstanding), "joinPending" (the       *)
(* joined fetches are), "done", "failed".                                  *)
(***************************************************************************)
\* no next() yet on the joining iterator nor on the base iterator
NoIterCalls == [next |-> 0, baseNext |-> 0]

Params(kind, attributes, keys, offset, size) ==
    [kind |-> kind, attributes |-> attributes, keys |-> keys, offset |-> offset, size |-> size]

\* the iterator of a fetchFirst call can still be asked for a page
IteratorOpen(c) ==
    \/ pc[c] = "iter"
    \/ pc[c] = "done" /\ params[c].kind = "fetchFirst" /\ result[c].st = "ok"

\* the call has started and the caller has not received all it asked for
Live(c) == pc[c] \in {"basePending", "joinPending"} \/ IteratorOpen(c)

\* the else branches of lines 305-307, 321-323, 359-361 left out: the Map of
\* the call before is kept
Partitioned_KeepMap(attributes) ==
    IF attributes.has
    THEN LET sep == SeperateBaseJoinAttributes(attributes.list, joinAlias, fks)
         IN  [base |-> Attributes(sep.base), map |-> sep.map]
    ELSE [base |-> attributes, map |-> mapJoinAttributes]

\* lines 302-307, 313-323, 348-361: partition the attributes, or reset the Map
Partitioned(attributes) ==
    IF attributes.has
    THEN LET sep == SeperateBaseJoinAttributes(attributes.list, joinAlias, fks)
         IN  [base |-> Attributes(sep.base), map |-> sep.map]
    ELSE [base |-> attributes, map |-> MapNull]

\* fetchFirst assigns the partitioned list to params.attributes itself
\* (baseParams is params); the other two build a new baseParams object
ParamsAfter(kind, attributes) ==
    IF kind = "fetchFirst" THEN Partitioned(attributes).base ELSE attributes

Start(c, kind, attributes, keys, offset, size) ==
    /\ pc[c] \notin {"basePending", "joinPending"}
    /\ mapJoinAttributes' = Partitioned(attributes).map
    /\ params' = [params EXCEPT ![c] = Params(kind, ParamsAfter(kind, attributes), keys, offset, size)]
    /\ baseParams' = [baseParams EXCEPT ![c] = Partitioned(attributes).base]
    /\ requested' = [requested EXCEPT ![c] = attributes]
    /\ pc' = [pc EXCEPT ![c] = IF kind = "fetchFirst" THEN "iter" ELSE "basePending"]
    /\ iterPos' = [iterPos EXCEPT ![c] = 0]
    /\ baseData' = [baseData EXCEPT ![c] = <<>>]
    /\ metaData' = [metaData EXCEPT ![c] = <<>>]
    /\ fkValues' = [fkValues EXCEPT ![c] = <<>>]
    /\ promises' = [promises EXCEPT ![c] = <<>>]
    /\ dpCalls' = [dpCalls EXCEPT ![c] = <<>>]
    /\ warned' = [warned EXCEPT ![c] = {}]
    /\ result' = [result EXCEPT ![c] = NoResult]
    /\ baseDone' = [baseDone EXCEPT ![c] = FALSE]
    /\ overlapped' = [d \in Calls |->
                        IF d = c THEN \E e \in Calls \ {c} : Live(e)
                        ELSE overlapped[d] \/ Live(d)]
    /\ settled' = [settled EXCEPT ![c] = {}]
    /\ iterCalls' = [iterCalls EXCEPT ![c] = NoIterCalls]
    /\ UNCHANGED <<cfgVars, query, deferredVars>>

FetchFirst(c, attributes, size) == Start(c, "fetchFirst", attributes, <<>>, 0, size)

FetchByKeys(c, attributes, keys) == Start(c, "fetchByKeys", attributes, keys, 0, 0)

FetchByOffset(c, attributes, offset, size) ==
    Start(c, "fetchByOffset", attributes, <<>>, offset, size)

\* next() asking the base iterator for two pages at once
IterNext_TwoPages(c) ==
    /\ IteratorOpen(c)
    /\ pc' = [pc EXCEPT ![c] = "basePending"]
    /\ baseData' = [baseData EXCEPT ![c] = <<>>]
    /\ metaData' = [metaData EXCEPT ![c] = <<>>]
    /\ fkValues' = [fkValues EXCEPT ![c] = <<>>]
    /\ promises' = [promises EXCEPT ![c] = <<>>]
    /\ dpCalls' = [dpCalls EXCEPT ![c] = <<>>]
    /\ warned' = [warned EXCEPT ![c] = {}]
    /\ result' = [result EXCEPT ![c] = NoResult]
    /\ baseDone' = [baseDone EXCEPT ![c] = FALSE]
    /\ settled' = [settled EXCEPT ![c] = {}]
    /\ iterCalls' = [iterCalls EXCEPT ![c] = [next |-> @.next + 1, baseNext |-> @.baseNext + 2]]
    /\ iterPos' = [iterPos EXCEPT ![c] = Min(@ + params[c].size, Len(baseRows))]
    /\ UNCHANGED <<cfgVars, mapJoinAttributes, params, baseParams, requested,
                   overlapped, query, deferredVars>>

\* JoiningAsyncIterator.next, lines 243-244: asks the base iterator for a page
IterNext(c) ==
    /\ IteratorOpen(c)
    /\ pc' = [pc EXCEPT ![c] = "basePending"]
    /\ baseData' = [baseData EXCEPT ![c] = <<>>]
    /\ metaData' = [metaData EXCEPT ![c] = <<>>]
    /\ fkValues' = [fkValues EXCEPT ![c] = <<>>]
    /\ promises' = [promises EXCEPT ![c] = <<>>]
    /\ dpCalls' = [dpCalls EXCEPT ![c] = <<>>]
    /\ warned' = [warned EXCEPT ![c] = {}]
    /\ result' = [result EXCEPT ![c] = NoResult]
    /\ baseDone' = [baseDone EXCEPT ![c] = FALSE]
    /\ settled' = [settled EXCEPT ![c] = {}]
    /\ iterCalls' = [iterCalls EXCEPT ![c] = [next |-> @.next + 1, baseNext |-> @.baseNext + 1]]
    /\ UNCHANGED <<cfgVars, mapJoinAttributes, params, baseParams, requested, iterPos,
                   overlapped, query, deferredVars>>

\* what the base provider resolves with, as the arrays the callbacks build
\* (lines 327-334, 366-371, 250)
BasePage(p, pos) ==
    CASE p.kind = "fetchFirst" -> BaseNext(pos, p.size)
      [] p.kind = "fetchByOffset" ->
            [hasValue |-> TRUE,
             metadata |-> BaseFetchByOffset(p.offset, p.size).metadata,
             data |-> BaseFetchByOffset(p.offset, p.size).data,
             done |-> BaseFetchByOffset(p.offset, p.size).done]
      [] OTHER ->
            LET arrays == FetchByKeyResultsToArray(TRUE, Cardinality(BaseFound(p.keys)),
                                                   [k \in Range(p.keys) |-> BaseItem(k)],
                                                   p.keys, <<>>, <<>>, NullRow)
            IN  [hasValue |-> TRUE, metadata |-> arrays.metaData, data |-> arrays.data,
                 done |-> FALSE]

\* The base fetch resolves and its callback runs up to the joined fetches.
BaseResolve(c) ==
    /\ pc[c] = "basePending"
    /\ LET p == params[c]
           page == BasePage(p, iterPos[c])
           keyValues == GetFKValues(page.data, fks, transform)
           issued == IssuePromises(keyValues, mapJoinAttributes)
       IN  /\ iterPos' = [iterPos EXCEPT ![c] = @ + Len(page.data)]
           /\ baseData' = [baseData EXCEPT ![c] = page.data]
           /\ metaData' = [metaData EXCEPT ![c] = page.metadata]
           /\ baseDone' = [baseDone EXCEPT ![c] = page.done]
           /\ IF ~page.hasValue
              THEN /\ pc' = [pc EXCEPT ![c] = "done"]
                   /\ result' = [result EXCEPT ![c] = Terminal]
                   /\ UNCHANGED <<fkValues, promises, dpCalls, warned>>
              ELSE IF ShortCircuit(page.data)
              THEN /\ pc' = [pc EXCEPT ![c] = "done"]
                   /\ result' = [result EXCEPT ![c] =
                                    Assemble(p, Len(page.data), page.metadata, page.data, page.done)]
                   /\ UNCHANGED <<fkValues, promises, dpCalls, warned>>
              ELSE /\ fkValues' = [fkValues EXCEPT ![c] = keyValues]
                   /\ promises' = [promises EXCEPT ![c] = issued]
                   /\ dpCalls' = [dpCalls EXCEPT ![c] = DPCallsFrom(1, issued)]
                   /\ warned' = [warned EXCEPT ![c] = {i \in DOMAIN issued : Warns(i)}]
                   /\ IF FirstNullDP <= Len(joinDPs)
                      THEN /\ pc' = [pc EXCEPT ![c] = "failed"]
                           /\ result' = [result EXCEPT ![c] = Failure("TypeError")]
                      ELSE /\ pc' = [pc EXCEPT ![c] = "joinPending"]
                           /\ UNCHANGED result
    /\ UNCHANGED <<cfgVars, mapJoinAttributes, params, baseParams, requested, overlapped,
                   settled, iterCalls, query, deferredVars>>

\* The base fetch rejects: nothing in the chain catches it.
BaseReject(c) ==
    /\ pc[c] = "basePending"
    /\ pc' = [pc EXCEPT ![c] = "failed"]
    /\ result' = [result EXCEPT ![c] = Failure("baseError")]
    /\ UNCHANGED <<cfgVars, mapJoinAttributes, params, baseParams, requested, iterPos,
                   baseData, metaData, fkValues, promises, dpCalls, warned, baseDone,
                   overlapped, settled, iterCalls, query, deferredVars>>

\* One joined fetch resolves; Promise.all waits for the others.
JoinSettle(c, i) ==
    /\ pc[c] = "joinPending"
    /\ i \in DOMAIN promises[c]
    /\ promises[c][i].st = "call"
    /\ i \notin settled[c]
    /\ settled' = [settled EXCEPT ![c] = @ \cup {i}]
    /\ UNCHANGED <<cfgVars, mapJoinAttributes, params, baseParams, requested, iterPos,
                   baseData, metaData, fkValues, promises, dpCalls, warned, result, baseDone,
                   overlapped, pc, iterCalls, query, deferredVars>>

\* the merging callback run without waiting for the joined fetches
AllSettled_NoWait(c) == TRUE

\* every promise handed to Promise.all has resolved (a null entry counts)
AllSettled(c) ==
    \A i \in DOMAIN promises[c] : promises[c][i].st = "call" => i \in settled[c]

\* Every joined fetch has resolved: the callback of Promise.all merges.
JoinResolve(c) ==
    /\ pc[c] = "joinPending"
    /\ AllSettled(c)
    /\ LET joinData == MergeJoined(baseData[c], promises[c], fkValues[c], mapJoinAttributes)
       IN  /\ baseData' = [baseData EXCEPT ![c] = joinData]
           /\ result' = [result EXCEPT ![c] =
                            Assemble(params[c], Len(baseData[c]), metaData[c], joinData, baseDone[c])]
    /\ pc' = [pc EXCEPT ![c] = "done"]
    /\ UNCHANGED <<cfgVars, mapJoinAttributes, params, baseParams, requested, iterPos,
                   metaData, fkValues, promises, dpCalls, warned, baseDone, overlapped,
                   settled, iterCalls, query, deferredVars>>

\* the error the joined fetch of alias i rejects with
JoinError(i) == IF i = 1 THEN "joinError1" ELSE "joinError2"

\* A joined fetch rejects, and the data of the fetches that had resolved is
\* merged into the page all the same.
JoinReject_MergesSettled(c) ==
    /\ pc[c] = "joinPending"
    /\ \E i \in DOMAIN promises[c] :
          /\ promises[c][i].st = "call"
          /\ i \notin settled[c]
          /\ result' = [result EXCEPT ![c] = Failure(JoinError(i))]
    /\ pc' = [pc EXCEPT ![c] = "failed"]
    /\ baseData' = [baseData EXCEPT ![c] =
            MergeJoined(baseData[c],
                        [k \in DOMAIN promises[c] |->
                            IF k \in settled[c] THEN promises[c][k] ELSE NoPromise],
                        fkValues[c], mapJoinAttributes)]
    /\ UNCHANGED <<cfgVars, mapJoinAttributes, params, baseParams, requested, iterPos,
                   metaData, fkValues, promises, dpCalls, warned, baseDone,
                   overlapped, settled, iterCalls, query, deferredVars>>

\* A joined fetch rejects: Promise.all rejects with its error and the callback
\* never runs.
JoinReject(c) ==
    /\ pc[c] = "joinPending"
    /\ \E i \in DOMAIN promises[c] :
          /\ promises[c][i].st = "call"
          /\ i \notin settled[c]
          /\ result' = [result EXCEPT ![c] = Failure(JoinError(i))]
    /\ pc' = [pc EXCEPT ![c] = "failed"]
    /\ UNCHANGED <<cfgVars, mapJoinAttributes, params, baseParams, requested, iterPos,
                   baseData, metaData, fkValues, promises, dpCalls, warned, baseDone,
                   overlapped, settled, iterCalls, query, deferredVars>>

(***************************************************************************)
(* The methods that only ask the base provider.                            *)
(***************************************************************************)
Str(x) == Val("string", <<>>, <<x>>)

NoQuery == [op |-> "none", st |-> "done", name |-> "", keys |-> <<>>, res |-> Undefined,
            found |-> {}]

\* getCapability with the test for 'filter' left out
GetCapabilityResult_SortOnly(capabilityName) ==
    IF capabilityName = "sort" THEN Null ELSE BaseGetCapability(capabilityName)

\* getCapability(capabilityName), lines 396-403
GetCapabilityResult(capabilityName) ==
    IF capabilityName = "sort" \/ capabilityName = "filter"
    THEN Null
    ELSE BaseGetCapability(capabilityName)

\* isEmpty(), lines 392-395
IsEmptyResult == Str(BaseIsEmpty)

\* getTotalSize(), lines 387-391: the callback returns what the base resolved with
GetTotalSizeResult == Num(BaseGetTotalSize)

\* containsKeys answering with every requested key
ContainsKeysResult_AllKeys(keys) == Range(keys)

\* containsKeys(params), lines 382-386: likewise
ContainsKeysResult(keys) == BaseContainsKeys(keys)

GetCapability(capabilityName) ==
    /\ query.st = "done"
    /\ query' = [op |-> "getCapability", st |-> "done", name |-> capabilityName, keys |-> <<>>,
                 res |-> GetCapabilityResult(capabilityName), found |-> {}]
    /\ UNCHANGED <<cfgVars, mapJoinAttributes, callVars, deferredVars>>

IsEmpty ==
    /\ query.st = "done"
    /\ query' = [op |-> "isEmpty", st |-> "done", name |-> "", keys |-> <<>>,
                 res |-> IsEmptyResult, found |-> {}]
    /\ UNCHANGED <<cfgVars, mapJoinAttributes, callVars, deferredVars>>

GetTotalSize ==
    /\ query.st = "done"
    /\ query' = [op |-> "getTotalSize", st |-> "pending", name |-> "", keys |-> <<>>,
                 res |-> Undefined, found |-> {}]
    /\ UNCHANGED <<cfgVars, mapJoinAttributes, callVars, deferredVars>>

ContainsKeys(keys) ==
    /\ query.st = "done"
    /\ query' = [op |-> "containsKeys", st |-> "pending", name |-> "", keys |-> keys,
                 res |-> Undefined, found |-> {}]
    /\ UNCHANGED <<cfgVars, mapJoinAttributes, callVars, deferredVars>>

\* the base provider's promise resolves and the callback hands the value on
QueryResolve ==
    /\ query.st = "pending"
    /\ query' = [query EXCEPT !.st = "done",
                              !.res = IF query.op = "getTotalSize" THEN GetTotalSizeResult
                                      ELSE Undefined,
                              !.found = IF query.op = "containsKeys"
                                        THEN ContainsKeysResult(query.keys) ELSE {}]
    /\ UNCHANGED <<cfgVars, mapJoinAttributes, callVars, deferredVars>>

(***************************************************************************)
(* DeferredDataProvider: a provider over a promise of a provider.  The     *)
(* promise resolves to a data provider ("provider") or to some other value *)
(* ("other"), or rejects.  A call stands at "idle", "waiting" (on          *)
(* _getDataProvider), "got" (line 229's callback returned the provider),   *)
(* "forwarded" (the method of the provider was called), "iterator" (a      *)
(* fetchFirst call got the provider's iterator), "settled" or "rejected".  *)
(***************************************************************************)
PromiseMethods == {"fetchByKeys", "containsKeys", "fetchByOffset", "getTotalSize"}

\* addEventListener and removeEventListener return nothing
ListenerMethods == {"addEventListener", "removeEventListener"}

\* the events dispatchEvent hands on to the provider in one run
MaxEvents == 1

\* DataProviderFeatureChecker.isDataProvider, imported from ojs/ojcomponentcore
IsDataProvider(value) == value = "provider"

\* what the provider's method resolves with for these arguments; page counts
\* the next() calls on the provider's iterator
InnerAnswer(method, arg, page) == [method |-> method, arg |-> arg, page |-> page]

NoAnswer == InnerAnswer("none", 0, 0)

NoNext == [st |-> "none", res |-> NoAnswer, err |-> "", early |-> FALSE]

NoDeferredCall ==
    [method |-> "none", arg |-> 0, st |-> "idle", res |-> NoAnswer, err |-> "", early |-> FALSE,
     pages |-> 0, next |-> NoNext]

NoDeferred ==
    /\ dataProviderPromise = "pending"
    /\ dataProvider = "unset"
    /\ assigned = 0
    /\ deferredCalls = [c \in Calls |-> NoDeferredCall]
    /\ innerCalls = <<>>

joinVars == <<cfgVars, mapJoinAttributes, callVars, query>>

\* the promise given to the constructor resolves
PromiseResolve(value) ==
    /\ dataProviderPromise = "pending"
    /\ dataProviderPromise' = value
    /\ UNCHANGED <<joinVars, dataProvider, assigned, deferredCalls, innerCalls>>

PromiseReject ==
    /\ dataProviderPromise = "pending"
    /\ dataProviderPromise' = "rejected"
    /\ UNCHANGED <<joinVars, dataProvider, assigned, deferredCalls, innerCalls>>

\* fetchByKeys, containsKeys, fetchByOffset, getTotalSize (lines 181-200):
\* _getDataProvider().then(...) is returned, nothing else happens
DeferredCall(c, method, arg) ==
    /\ deferredCalls[c].st = "idle"
    /\ deferredCalls' = [deferredCalls EXCEPT ![c] =
            [NoDeferredCall EXCEPT !.method = method, !.arg = arg, !.st = "waiting",
                                   !.early = (dataProviderPromise = "pending")]]
    /\ UNCHANGED <<joinVars, dataProviderPromise, dataProvider, assigned, innerCalls>>

\* addEventListener, removeEventListener (lines 212-221): the registration
\* is made on the provider in the callback of _getDataProvider()
DeferredListen(c, method, arg) == DeferredCall(c, method, arg)

\* fetchFirst (lines 175-180): the iterable over the promise of an iterator
DeferredFetchFirst(c, arg) == DeferredCall(c, "fetchFirst", arg)

\* the assignment of lines 231-232 without the test of line 231
StoreProvider_Always(stored, count, value) == [stored |-> value, count |-> count + 1]

\* lines 231-232
StoreProvider(stored, count, value) ==
    IF stored = "unset" THEN [stored |-> value, count |-> count + 1]
    ELSE [stored |-> stored, count |-> count]

\* the callback of line 229 with the provider stored before it is checked
GetDataProviderResult_StoreFirst(value, stored, count) ==
    IF IsDataProvider(value)
    THEN [ok |-> TRUE, err |-> "", store |-> StoreProvider(stored, count, value)]
    ELSE [ok |-> FALSE, err |-> "Invalid data type",
          store |-> StoreProvider(stored, count, value)]

\* the callback of line 229, for the value the promise resolved with
GetDataProviderResult(value, stored, count) ==
    IF IsDataProvider(value)
    THEN [ok |-> TRUE, err |-> "", store |-> StoreProvider(stored, count, value)]
    ELSE [ok |-> FALSE, err |-> "Invalid data type",
          store |-> [stored |-> stored, count |-> count]]

\* _getDataProvider's promise settles for call c (lines 229-237); a rejected
\* constructor promise passes its rejection on
GetDataProviderThen(c) ==
    /\ deferredCalls[c].st = "waiting"
    /\ dataProviderPromise # "pending"
    /\ IF dataProviderPromise = "rejected"
       THEN /\ deferredCalls' = [deferredCalls EXCEPT ![c].st = "rejected",
                                                      ![c].err = "promiseRejected"]
            /\ UNCHANGED <<dataProvider, assigned>>
       ELSE LET r == GetDataProviderResult(dataProviderPromise, dataProvider, assigned)
            IN  /\ dataProvider' = r.store.stored
                /\ assigned' = r.store.count
                /\ deferredCalls' = [deferredCalls EXCEPT
                        ![c].st = IF r.ok THEN "got" ELSE "rejected",
                        ![c].err = r.err]
    /\ UNCHANGED <<joinVars, dataProviderPromise, innerCalls>>

\* the callbacks of lines 176-178, 182-184, 187-189, 192-194, 197-199: the
\* method is called on the value _getDataProvider resolved with
Forward(c) ==
    /\ deferredCalls[c].st = "got"
    /\ innerCalls' = Append(innerCalls, [on |-> dataProviderPromise,
                                         method |-> deferredCalls[c].method,
                                         arg |-> deferredCalls[c].arg])
    /\ deferredCalls' = [deferredCalls EXCEPT ![c].st =
            IF deferredCalls[c].method = "fetchFirst" THEN "iterator"
            ELSE IF deferredCalls[c].method \in ListenerMethods THEN "registered"
            ELSE "forwarded"]
    /\ UNCHANGED <<joinVars, dataProviderPromise, dataProvider, assigned>>

\* the provider's promise resolves: the deferred call resolves with its value
InnerSettle(c) ==
    /\ deferredCalls[c].st = "forwarded"
    /\ deferredCalls' = [deferredCalls EXCEPT
            ![c].st = "settled",
            ![c].res = InnerAnswer(deferredCalls[c].method, deferredCalls[c].arg, 0)]
    /\ UNCHANGED <<joinVars, dataProviderPromise, dataProvider, assigned, innerCalls>>

\* the provider's promise rejects
InnerFail(c) ==
    /\ deferredCalls[c].st = "forwarded"
    /\ deferredCalls' = [deferredCalls EXCEPT ![c].st = "rejected", ![c].err = "innerError"]
    /\ UNCHANGED <<joinVars, dataProviderPromise, dataProvider, assigned, innerCalls>>

\* the callback of some _getDataProvider() call has run on a valid provider
CallbackRan ==
    \E c \in Calls :
        /\ deferredCalls[c].st \notin {"idle", "waiting"}
        /\ deferredCalls[c].st = "rejected" => deferredCalls[c].err = "innerError"

\* what the provider's own isEmpty() and dispatchEvent() return
InnerIsEmpty == Str("no")

InnerDispatchEvent == Str("true")

\* an isEmpty that never asks the provider
DeferredIsEmptyResult_Unknown(stored) == Str("unknown")

\* isEmpty(), lines 201-206
DeferredIsEmptyResult(stored) ==
    IF stored = "unset" THEN Str("unknown") ELSE InnerIsEmpty

\* dispatchEvent(evt), lines 222-226
DeferredDispatchEventResult(stored) ==
    IF stored = "unset" THEN Str("false") ELSE InnerDispatchEvent

\* the record of a synchronous answer: name is what the constructor's promise
\* had settled to when it was asked, st whether a callback had run by then
DeferredAnswer(op, res) ==
    [NoQuery EXCEPT !.op = op, !.name = dataProviderPromise,
                    !.st = IF CallbackRan THEN "afterCallback" ELSE "beforeCallback",
                    !.res = res]

DeferredIsEmpty ==
    /\ query' = DeferredAnswer("isEmpty", DeferredIsEmptyResult(dataProvider))
    /\ UNCHANGED <<cfgVars, mapJoinAttributes, callVars, deferredVars>>

DeferredDispatchEvent(evt) ==
    /\ Cardinality({k \in DOMAIN innerCalls : innerCalls[k].method = "dispatchEvent"}) < MaxEvents
    /\ query' = DeferredAnswer("dispatchEvent", DeferredDispatchEventResult(dataProvider))
    /\ innerCalls' = IF dataProvider = "unset" THEN innerCalls
                     ELSE Append(innerCalls, [on |-> dataProvider, method |-> "dispatchEvent",
                                              arg |-> evt])
    /\ UNCHANGED <<cfgVars, mapJoinAttributes, callVars, dataProviderPromise, dataProvider,
                   assigned, deferredCalls>>

\* AsyncIterator.next (lines 167-172): waits for the promise of the iterator
DeferredNext(c) ==
    /\ deferredCalls[c].method = "fetchFirst"
    /\ deferredCalls[c].next.st \in {"none", "settled"}
    /\ deferredCalls[c].pages < MaxRows
    /\ deferredCalls' = [deferredCalls EXCEPT
            ![c].next = [NoNext EXCEPT !.st = "waiting",
                                       !.early = (dataProviderPromise = "pending")]]
    /\ UNCHANGED <<joinVars, dataProviderPromise, dataProvider, assigned, innerCalls>>

\* the callback of lines 169-171, or the rejection of the promise of the
\* iterator passed on
NextThen(c) ==
    /\ deferredCalls[c].next.st = "waiting"
    /\ deferredCalls[c].st \in {"iterator", "rejected"}
    /\ IF deferredCalls[c].st = "iterator"
       THEN /\ innerCalls' = Append(innerCalls, [on |-> dataProviderPromise, method |-> "next",
                                                 arg |-> deferredCalls[c].arg])
            /\ deferredCalls' = [deferredCalls EXCEPT ![c].next.st = "forwarded",
                                                      ![c].pages = @ + 1]
       ELSE /\ deferredCalls' = [deferredCalls EXCEPT ![c].next.st = "rejected",
                                                      ![c].next.err = deferredCalls[c].err]
            /\ UNCHANGED innerCalls
    /\ UNCHANGED <<joinVars, dataProviderPromise, dataProvider, assigned>>

\* the provider's iterator resolves its next()
NextSettle(c) ==
    /\ deferredCalls[c].next.st = "forwarded"
    /\ deferredCalls' = [deferredCalls EXCEPT
            ![c].next.st = "settled",
            ![c].next.res = InnerAnswer("next", deferredCalls[c].arg, deferredCalls[c].pages)]
    /\ UNCHANGED <<joinVars, dataProviderPromise, dataProvider, assigned, innerCalls>>

(***************************************************************************)
(* Configurations and inputs.                                              *)
(***************************************************************************)
\* the shapes of a base row: its fields a and b
RowShapes == {<<Num(1), Num(1)>>, <<Num(2), Num(1)>>, <<Null, Unset>>}

Tables ==
    {[i \in DOMAIN t |-> MkRow(i, t[i][1], t[i][2])] :
        t \in UNION {[1..n -> RowShapes] : n \in 0..MaxRows}}

\* the keys a joined provider can hold
AllKeys == {Num(1), Num(2)} \cup {Val("array", <<x, y>>, <<>>) : x \in 1..2, y \in 1..2}

StoreOf(batch, noResult, keys) == [batch |-> batch, noResult |-> noResult, keys |-> keys]

FullStore == StoreOf(TRUE, FALSE, AllKeys)

PartStore == StoreOf(FALSE, FALSE, {k \in AllKeys : k.v[1] = 1})

EmptyStore == StoreOf(TRUE, FALSE, {})

NoResultStore == StoreOf(FALSE, TRUE, {})

StoreChoices ==
    {<<FullStore, FullStore>>, <<PartStore, EmptyStore>>, <<EmptyStore, PartStore>>,
     <<FullStore, NoResultStore>>}

CapNames == {"sort", "filter", "fetchByKeys"}

Cap(n) == Val("capability", <<>>, <<n>>)

CapChoices == {[n \in CapNames |-> IF n \in S THEN Cap(n) ELSE Null] : S \in SUBSET CapNames}

AllCaps == [n \in CapNames |-> Cap(n)]

JoinChoices ==
    {<<>>,
     <<Join("dept", "a", <<>>, "", 1)>>,
     <<Join("dept", "a", <<>>, "", 1), Join("mgr", "b", <<>>, "", 2)>>,
     <<Join("dept", "", <<"a", "b">>, "", 1), Join("mgr", "b", <<>>, "", 2)>>,
     <<Join("dept", "a", <<>>, "", 1), Join("mgr", "", <<>>, "", 2)>>,
     <<Join("dept", "", <<"b", "a">>, "pair", 1)>>,
     <<Join("dept", "a", <<>>, "", 1), Join("mgr", "b", <<>>, "", 0)>>,
     <<Join("dept", "b", <<>>, "pair", 1)>>}

TwoJoins == <<Join("dept", "a", <<>>, "", 1), Join("mgr", "b", <<>>, "", 2)>>

\* what a caller passes as params.attributes
AttrChoices ==
    {NoAttributes,
     Attributes(<<Plain("id")>>),
     Attributes(<<Plain("id"), Plain("dept")>>),
     Attributes(<<Nested("dept", <<"name">>), Plain("a")>>),
     Attributes(<<Plain("mgr")>>)}

\* params.keys: distinct keys, some of which the base provider may not hold
KeySeqs ==
    {<<k>> : k \in 1..(MaxRows + 1)}
    \cup {s \in (1..(MaxRows + 1)) \X (1..(MaxRows + 1)) : s[1] # s[2]}

\* the state the constructor leaves (lines 215-221, 298)
Constructed(joins) ==
    /\ options = joins
    /\ joinAlias = GetJoinSpec(joins).joinAlias
    /\ fks = GetJoinSpec(joins).fks
    /\ transform = GetJoinSpec(joins).transform
    /\ joinDPs = GetJoinSpec(joins).joinDPs
    /\ mapJoinAttributes = MapEmpty

NoCalls ==
    /\ pc = [c \in Calls |-> "idle"]
    /\ params = [c \in Calls |-> Params("none", NoAttributes, <<>>, 0, 0)]
    /\ baseParams = [c \in Calls |-> NoAttributes]
    /\ requested = [c \in Calls |-> NoAttributes]
    /\ iterPos = [c \in Calls |-> 0]
    /\ baseData = [c \in Calls |-> <<>>]
    /\ metaData = [c \in Calls |-> <<>>]
    /\ fkValues = [c \in Calls |-> <<>>]
    /\ promises = [c \in Calls |-> <<>>]
    /\ dpCalls = [c \in Calls |-> <<>>]
    /\ warned = [c \in Calls |-> {}]
    /\ result = [c \in Calls |-> NoResult]
    /\ baseDone = [c \in Calls |-> FALSE]
    /\ overlapped = [c \in Calls |-> FALSE]
    /\ settled = [c \in Calls |-> {}]
    /\ iterCalls = [c \in Calls |-> NoIterCalls]
    /\ query = NoQuery
    /\ NoDeferred

(***************************************************************************)
(* Spec: one fetch call at a time, over every configuration.               *)
(***************************************************************************)
Init ==
    /\ \E joins \in JoinChoices : Constructed(joins)
    /\ baseRows \in Tables
    /\ baseCaps = AllCaps
    /\ stores \in StoreChoices
    /\ NoCalls

\* the promise callbacks and the iterator of call c
Continue(c) ==
    \/ IterNext(c)
    \/ BaseResolve(c)
    \/ BaseReject(c)
    \/ \E i \in 1..2 : JoinSettle(c, i)
    \/ JoinResolve(c)
    \/ JoinReject(c)

\* the first fetch call on the new instance, with any arguments
FirstCall(c) ==
    /\ pc[c] = "idle"
    /\ \/ \E attributes \in AttrChoices, size \in 1..MaxRows : FetchFirst(c, attributes, size)
       \/ \E attributes \in AttrChoices, keys \in KeySeqs : FetchByKeys(c, attributes, keys)
       \/ \E attributes \in AttrChoices, offset \in 0..Len(baseRows), size \in {1, MaxRows} :
             FetchByOffset(c, attributes, offset, size)

Next == FirstCall("A") \/ Continue("A")

Spec == Init /\ [][Next]_vars

(***************************************************************************)
(* SpecRace: two callers on one instance, one fetch call each, in any      *)
(* interleaving, over two configurations of two joins.                     *)
(***************************************************************************)
RaceTable == [i \in 1..MaxRows |-> MkRow(i, Num(IF i = 1 THEN 1 ELSE 2), Num(1))]

RaceAttrs ==
    {NoAttributes,
     Attributes(<<Plain("id")>>),
     Attributes(<<Plain("id"), Plain("dept")>>),
     Attributes(<<Nested("dept", <<"name">>), Plain("mgr")>>)}

CompositeJoins == <<Join("dept", "", <<"a", "b">>, "", 1), Join("mgr", "b", <<>>, "", 2)>>

InitRace ==
    /\ \E joins \in {TwoJoins, CompositeJoins} : Constructed(joins)
    /\ baseRows = RaceTable
    /\ baseCaps = AllCaps
    /\ stores \in {<<FullStore, FullStore>>, <<PartStore, EmptyStore>>}
    /\ NoCalls

RaceCall(c) ==
    /\ pc[c] = "idle"
    /\ \/ \E attributes \in RaceAttrs : FetchFirst(c, attributes, 1)
       \/ \E attributes \in RaceAttrs : FetchByKeys(c, attributes, <<1, 2>>)
       \/ \E attributes \in RaceAttrs : FetchByOffset(c, attributes, 0, MaxRows)

NextRace == \E c \in Calls : RaceCall(c) \/ Continue(c)

SpecRace == InitRace /\ [][NextRace]_vars

(***************************************************************************)
(* SpecFacade: the methods that only ask the base provider, between the    *)
(* fetch calls of one caller, over every base provider.                    *)
(***************************************************************************)
InitFacade ==
    /\ \E joins \in {<<>>, TwoJoins} : Constructed(joins)
    /\ baseRows \in Tables
    /\ baseCaps \in CapChoices
    /\ stores = <<FullStore, PartStore>>
    /\ NoCalls

NextFacade ==
    \/ \E capabilityName \in CapNames : GetCapability(capabilityName)
    \/ IsEmpty
    \/ GetTotalSize
    \/ \E keys \in KeySeqs : ContainsKeys(keys)
    \/ QueryResolve
    \/ \E attributes \in {NoAttributes, Attributes(<<Plain("dept")>>)} :
          FetchByOffset("A", attributes, 0, MaxRows)
    \/ BaseResolve("A")
    \/ \E i \in 1..2 : JoinSettle("A", i)
    \/ JoinResolve("A")

SpecFacade == InitFacade /\ [][NextFacade]_vars

(***************************************************************************)
(* SpecPart: the partition of the attributes, over every attributes list   *)
(* and every declaration of foreign keys.                                  *)
(***************************************************************************)
\* what a caller may put in params.attributes
AttrEntries ==
    {Plain("id"), Plain("a"), Plain("c"), Plain("dept"), Nested("dept", <<"name">>),
     Bare("mgr"), Nested("b", <<"x">>)}

AttrRequests ==
    {NoAttributes} \cup
    {Attributes(l) : l \in UNION {[1..n -> AttrEntries] : n \in 0..MaxAttrs}}

\* the foreign key mappings an alias may declare: foreignKey, foreignKeys, neither
FKMappings == {<<"a", <<>>>>, <<"c", <<>>>>, <<"", <<"a", "b">>>>, <<"", <<>>>>}

PartJoins ==
    {<<>>}
    \cup {<<Join("dept", m[1], m[2], "", 1)>> : m \in FKMappings}
    \cup {<<Join("dept", m[1], m[2], "", 1), Join("mgr", n[1], n[2], "", 2)>> :
            m \in FKMappings, n \in FKMappings}

InitPart ==
    /\ \E joins \in PartJoins : Constructed(joins)
    /\ baseRows = RaceTable
    /\ baseCaps = AllCaps
    /\ stores = <<FullStore, FullStore>>
    /\ NoCalls

PartCall(c) ==
    /\ pc[c] = "idle"
    /\ \/ \E attributes \in AttrRequests : FetchFirst(c, attributes, 1)
       \/ \E attributes \in AttrRequests : FetchByKeys(c, attributes, <<1>>)
       \/ \E attributes \in AttrRequests : FetchByOffset(c, attributes, 0, 1)

NextPart == PartCall("A") \/ BaseResolve("A")

SpecPart == InitPart /\ [][NextPart]_vars

(***************************************************************************)
(* SpecDeferred: two callers of one DeferredDataProvider, one call each    *)
(* (a fetchFirst call with its next() calls), before and after the promise *)
(* settles.                                                                *)
(***************************************************************************)
DeferredArgs == 1..2

InitDeferred ==
    /\ Constructed(<<>>)
    /\ baseRows = <<>>
    /\ baseCaps = AllCaps
    /\ stores = <<FullStore, FullStore>>
    /\ NoCalls

NextDeferred ==
    \/ \E value \in {"provider", "other"} : PromiseResolve(value)
    \/ PromiseReject
    \/ \E c \in Calls, method \in PromiseMethods, arg \in DeferredArgs : DeferredCall(c, method, arg)
    \/ \E c \in Calls, arg \in DeferredArgs : DeferredFetchFirst(c, arg)
    \/ \E c \in Calls, method \in ListenerMethods : DeferredListen(c, method, 1)
    \/ DeferredIsEmpty
    \/ DeferredDispatchEvent(1)
    \/ \E c \in Calls :
          \/ GetDataProviderThen(c)
          \/ Forward(c)
          \/ InnerSettle(c)
          \/ InnerFail(c)
          \/ DeferredNext(c)
          \/ NextThen(c)
          \/ NextSettle(c)

SpecDeferred == InitDeferred /\ [][NextDeferred]_vars

(***************************************************************************)
(* SpecRound: call A without attributes; when A is over, call B of the     *)
(* same kind and arguments with attributes that name every base field and  *)
(* every alias as a plain name.                                            *)
(***************************************************************************)
\* every base field and every alias, each as a plain name
AllPlain(aliases) ==
    Attributes(<<Plain("id"), Plain("a"), Plain("b"), Plain("c")>>
               \o [i \in DOMAIN aliases |-> Plain(aliases[i])])

RoundJoins ==
    {<<Join("dept", "a", <<>>, "", 1)>>, TwoJoins, CompositeJoins}

InitRound ==
    /\ \E joins \in RoundJoins : Constructed(joins)
    /\ baseRows \in Tables
    /\ baseCaps = AllCaps
    /\ stores \in StoreChoices
    /\ NoCalls

RoundFirst ==
    /\ pc["A"] = "idle"
    /\ \/ \E size \in 1..MaxRows : FetchFirst("A", NoAttributes, size)
       \/ \E keys \in KeySeqs : FetchByKeys("A", NoAttributes, keys)
       \/ \E offset \in 0..Len(baseRows), size \in {1, MaxRows} :
             FetchByOffset("A", NoAttributes, offset, size)

RoundSecond ==
    /\ pc["A"] = "done"
    /\ iterCalls["A"].next <= 1
    /\ pc["B"] = "idle"
    /\ Start("B", params["A"].kind, AllPlain(joinAlias), params["A"].keys,
             params["A"].offset, params["A"].size)

NextRound ==
    \/ RoundFirst
    \/ RoundSecond
    \/ (pc["B"] = "idle" /\ iterCalls["A"].next = 0 /\ Continue("A"))
    \/ (iterCalls["B"].next = 0 /\ Continue("B"))

SpecRound == InitRound /\ [][NextRound]_vars

(***************************************************************************)
(* SpecIter: caller A iterates over a fetchFirst call while caller B makes *)
(* a fetch call of its own; a call or next() only starts when no fetch is  *)
(* outstanding, so the calls never overlap in time.                        *)
(***************************************************************************)
\* no fetch of another caller is outstanding
Sequential(c) == \A d \in Calls \ {c} : pc[d] \notin {"basePending", "joinPending"}

IterCall(c) ==
    /\ pc[c] = "idle"
    /\ \/ \E attributes \in RaceAttrs : FetchFirst(c, attributes, 1)
       \/ c # "A" /\ \E attributes \in RaceAttrs : FetchByKeys(c, attributes, <<1, 2>>)
       \/ c # "A" /\ \E attributes \in RaceAttrs : FetchByOffset(c, attributes, 0, MaxRows)

NextIter == \E c \in Calls : Sequential(c) /\ (IterCall(c) \/ Continue(c))

SpecIter == InitRace /\ [][NextIter]_vars

(***************************************************************************)
(* Properties.                                                             *)
(***************************************************************************)
(* SpecTwice: caller A makes one fetch call with a params object; when a   *)
(* page of it has been delivered, B calls the same method with the same    *)
(* object, as the first call left it.                                      *)
(***************************************************************************)
TwiceFirst ==
    /\ pc["A"] = "idle"
    /\ pc["B"] = "idle"
    /\ \/ \E attributes \in RaceAttrs : FetchFirst("A", attributes, 1)
       \/ \E attributes \in RaceAttrs : FetchByKeys("A", attributes, <<1, 2>>)
       \/ \E attributes \in RaceAttrs : FetchByOffset("A", attributes, 0, MaxRows)

TwiceSecond ==
    /\ pc["A"] = "done"
    /\ pc["B"] = "idle"
    /\ LET p == params["A"]
       IN  Start("B", p.kind, p.attributes, p.keys, p.offset, p.size)

NextTwice ==
    \/ TwiceFirst
    \/ TwiceSecond
    \/ pc["B"] = "idle" /\ Continue("A")
    \/ Continue("B")

SpecTwice == InitRace /\ [][NextTwice]_vars

(***************************************************************************)
\* the page the base provider resolved call c with
PageOf(c) == BasePage(params[c], iterPos[c] - Len(baseData[c]))

\* call c has handed a page to its caller
Delivered(c) == pc[c] = "done" /\ result[c].st = "ok"

\* the lookup key of row j for alias i: for a plain foreignKey without a
\* transform, the value of that field of the row as the base provider gave it
LookupKey(c, i, j) ==
    IF options[i].defined /\ options[i].foreignKey # "" /\ options[i].transform = ""
    THEN GetField(PageOf(c).data[j], options[i].foreignKey)
    ELSE fkValues[c][i][j]

\* the joined provider of alias i holds a record under key
Holds(i, key) == ~stores[joinDPs[i]].noResult /\ key \in stores[joinDPs[i]].keys

\* C1: with no attributes requested, every non-null row of the page carries,
\* under each alias, the record its joined provider holds under the row's
\* lookup key, and keeps its own fields; a null row stays null and is
\* assigned nothing.
C1_JoinedUnderAlias ==
    \A c \in Calls :
        (Delivered(c) /\ ~requested[c].has /\ ~overlapped[c]) =>
            \A j \in DOMAIN PageOf(c).data :
                IF PageOf(c).data[j].st # "row"
                THEN baseData[c][j] = PageOf(c).data[j]
                ELSE /\ baseData[c][j].st = "row"
                     /\ \A x \in BaseFields : baseData[c][j].f[x] = PageOf(c).data[j].f[x]
                     /\ \A i \in DOMAIN joinAlias :
                            Holds(i, LookupKey(c, i, j)) =>
                                baseData[c][j].f[joinAlias[i]]
                                    = JoinedRecord(joinDPs[i], LookupKey(c, i, j), AbsentA)

\* a page with a null row and a row joined under both aliases
C1_Witness ==
    \E c \in Calls :
        /\ Delivered(c) /\ ~requested[c].has
        /\ \E j \in DOMAIN baseData[c] : baseData[c][j].st = "null"
        /\ \E j \in DOMAIN baseData[c] :
              /\ baseData[c][j].st = "row"
              /\ baseData[c][j].f["dept"].t = "rec"
              /\ baseData[c][j].f["mgr"].t = "rec"
              /\ baseData[c][j].f["dept"] # baseData[c][j].f["mgr"]

\* C2: for every alias that was fetched and every non-null row, a lookup key
\* that is null or has no entry in the alias's result set leaves exactly null
\* under the alias.
C2_MissingKeyGivesNull ==
    \A c \in Calls :
        Delivered(c) =>
            \A i \in DOMAIN promises[c] :
                promises[c][i].st = "call" =>
                    \A j \in DOMAIN baseData[c] :
                        (/\ baseData[c][j].st = "row"
                         /\ \/ IsNullish(fkValues[c][i][j])
                            \/ fkValues[c][i][j] \notin JoinResultOf(promises[c][i]).found)
                        => baseData[c][j].f[joinAlias[i]] = Null

\* C3: when the page is empty or no join is configured, the join step hands
\* back the page as it was and no method of a joined provider was called.
C3_IdentityWithoutJoin ==
    \A c \in Calls :
        (/\ pc[c] \in {"joinPending", "done"}
         /\ result[c].st # "terminal"
         /\ Len(PageOf(c).data) = 0 \/ Len(joinAlias) = 0)
        => /\ dpCalls[c] = <<>>
           /\ pc[c] = "done" => baseData[c] = PageOf(c).data

\* an empty page under two joins
C3_Witness ==
    \E c \in Calls :
        /\ pc[c] = "done" /\ result[c].st = "ok"
        /\ params[c].kind = "fetchByOffset"
        /\ Len(joinAlias) = 2
        /\ Len(baseRows) > 0
        /\ Len(PageOf(c).data) = 0

\* C4: the keys of the Map fetchByKeys returns are the requested keys the
\* base provider returned a row for, each with that row's metadata and data.
C4_OnlyKeysOfBaseResult ==
    \A c \in Calls :
        (Delivered(c) /\ params[c].kind = "fetchByKeys") =>
            /\ Range(result[c].keys) = BaseFound(params[c].keys)
            /\ \A i \in DOMAIN result[c].items :
                  /\ ~IsNullish(result[c].items[i].metadata)
                  /\ result[c].items[i].data.st = "row"

\* C5: fetchByOffset returns one item per item of the base result, in its
\* order, with its metadata and its row's own fields, and the base done flag.
C5_OffsetShapeKept ==
    \A c \in Calls :
        (Delivered(c) /\ params[c].kind = "fetchByOffset") =>
            LET base == BaseFetchByOffset(params[c].offset, params[c].size)
            IN  /\ Len(result[c].items) = Len(base.data)
                /\ result[c].done = base.done
                /\ \A i \in DOMAIN base.data :
                      /\ result[c].items[i].metadata = base.metadata[i]
                      /\ result[c].items[i].data.st = base.data[i].st
                      /\ \A x \in BaseFields :
                            result[c].items[i].data.f[x] = base.data[i].f[x]

\* a joined page that is not the last one
C5_Witness ==
    \E c \in Calls :
        /\ Delivered(c) /\ params[c].kind = "fetchByOffset"
        /\ Len(result[c].items) > 0
        /\ ~result[c].done
        /\ result[c].items[1].data.f["dept"].t = "rec"

\* C6: getCapability answers null for 'sort' and 'filter' whatever the base
\* provider reports, and what the base provider reports for any other name.
C6_SortFilterNotSupported ==
    query.op = "getCapability" =>
        IF query.name \in {"sort", "filter"}
        THEN query.res = Null
        ELSE query.res = baseCaps[query.name]

\* 'filter' asked of a base provider that supports it, after a joined fetch
C6_Witness ==
    /\ query.op = "getCapability" /\ query.name = "filter"
    /\ baseCaps["filter"] # Null
    /\ pc["A"] = "done" /\ dpCalls["A"] # <<>>

\* what isEmpty, getTotalSize and containsKeys answered is what the base
\* provider answers
AnswersAsBase ==
    /\ query.op = "isEmpty" => query.res = Str(IF Len(baseRows) = 0 THEN "yes" ELSE "no")
    /\ (query.op = "getTotalSize" /\ query.st = "done") => query.res = Num(Len(baseRows))
    /\ (query.op = "containsKeys" /\ query.st = "done") =>
            query.found = {k \in Range(query.keys) : k \in 1..Len(baseRows)}

\* C7: isEmpty, containsKeys and getTotalSize answer what the base provider
\* answers, after any fetch calls, and no step of them calls a joined provider.
C7_DelegatesToBase ==
    /\ []AnswersAsBase
    /\ [][query' # query => dpCalls' = dpCalls]_vars

\* containsKeys answered for a held and a missing key, after a joined fetch
C7_Witness ==
    /\ query.op = "containsKeys" /\ query.st = "done"
    /\ query.found # {} /\ query.found # Range(query.keys)
    /\ pc["A"] = "done" /\ dpCalls["A"] # <<>>

\* C8: a fetch call without attributes that no other call overlaps issues,
\* for a page with rows, one fetchByKeys per alias with the page's lookup
\* keys and no attributes, and the rows get the whole joined records.
C8_NoAttributesFetchesAll ==
    \A c \in Calls :
        (/\ pc[c] \in {"joinPending", "done"}
         /\ ~requested[c].has
         /\ ~overlapped[c]
         /\ Len(PageOf(c).data) > 0)
        => /\ \A i \in DOMAIN joinAlias :
                /\ i \in DOMAIN promises[c]
                /\ promises[c][i] =
                       PromiseOf(joinDPs[i],
                                 [j \in DOMAIN PageOf(c).data |-> LookupKey(c, i, j)], AbsentA)
           /\ Delivered(c) =>
                \A j \in DOMAIN baseData[c], i \in DOMAIN joinAlias :
                    (baseData[c][j].st = "row" /\ Holds(i, LookupKey(c, i, j))) =>
                        baseData[c][j].f[joinAlias[i]]
                            = JoinedRecord(joinDPs[i], LookupKey(c, i, j), AbsentA)

\* a call without attributes delivered after the other caller's call with
\* attributes was over
C8_Witness ==
    \E c \in Calls, d \in Calls :
        /\ c # d
        /\ Delivered(c) /\ ~requested[c].has /\ ~overlapped[c]
        /\ Len(baseData[c]) > 0
        /\ pc[d] = "done" /\ requested[d].has

\* the alias is not named in the attributes the caller passed
Unnamed(c, alias) == \A k \in DOMAIN requested[c].list : requested[c].list[k].name # alias

\* C9: a fetch call with attributes that do not name an alias issues no
\* fetchByKeys for that alias and assigns that alias on no row.
C9_UnnamedAliasLeftUnset ==
    \A c \in Calls :
        (pc[c] \in {"joinPending", "done"} /\ requested[c].has) =>
            \A i \in DOMAIN joinAlias :
                Unnamed(c, joinAlias[i]) =>
                    /\ i \in DOMAIN promises[c] => promises[c][i].st = "null"
                    /\ \A j \in DOMAIN baseData[c] : baseData[c][j].f[joinAlias[i]] = Unset

\* the field names alias i declares as its foreign key
DeclaredFKFields(i) ==
    IF ~options[i].defined THEN {}
    ELSE IF options[i].foreignKey # "" THEN {options[i].foreignKey}
    ELSE Range(options[i].foreignKeys)

\* a requested base attribute is in the list sent: a plain name as that name,
\* an entry with a name as that entry or as its nested list
Carried(e, sent) ==
    CASE e.kind = "string" -> e \in Range(sent)
      [] e.kind = "nested" -> e \in Range(sent) \/ ListA(e.attributes) \in Range(sent)
      [] OTHER -> e \in Range(sent) \/ UndefA \in Range(sent)

\* C10: the attributes sent to the base provider contain every requested
\* base attribute and every field of every declared foreign key.
C10_BaseListHasForeignKeys ==
    \A c \in Calls :
        (pc[c] # "idle" /\ requested[c].has) =>
            /\ \A k \in DOMAIN requested[c].list :
                  requested[c].list[k].name \notin Range(joinAlias) =>
                      Carried(requested[c].list[k], baseParams[c].list)
            /\ \A i \in DOMAIN options : \A n \in DeclaredFKFields(i) :
                  Plain(n) \in Range(baseParams[c].list)

\* C11: a call whose attributes name every base field and every alias as a
\* plain name issues the joined fetches of the same call without attributes
\* (same provider, same keys, no attributes property) and delivers the same
\* rows.
C11_PlainNamesAsNoAttributes ==
    (/\ pc["A"] = "done" /\ pc["B"] \in {"joinPending", "done"}
     /\ params["B"].kind = params["A"].kind)
    => /\ promises["B"] = promises["A"]
       /\ pc["B"] = "done" => result["B"] = result["A"]

\* C12: when the joined fetch of an alias rejects, the fetch call fails with
\* that alias's error and every row of the page is as the base provider gave
\* it: no alias is assigned, not even one whose fetch had resolved.
C12_RejectionLeavesPage ==
    \A c \in Calls :
        (pc[c] = "failed" /\ result[c].err \notin {"baseError", "TypeError"}) =>
            /\ result[c].st = "error"
            /\ \E i \in DOMAIN promises[c] :
                  /\ promises[c][i].st = "call"
                  /\ i \notin settled[c]
                  /\ result[c].err = JoinError(i)
            /\ baseData[c] = PageOf(c).data
            /\ \A j \in DOMAIN baseData[c], x \in AliasNames : baseData[c][j].f[x] = Unset

\* the second alias's fetch rejects after the first one's resolved with a
\* record for a row of the page
C12_Witness ==
    \E c \in Calls :
        /\ pc[c] = "failed" /\ result[c].err = JoinError(2)
        /\ 1 \in settled[c]
        /\ \E j \in DOMAIN baseData[c] :
              baseData[c][j].st = "row" /\ Holds(1, fkValues[c][1][j])

\* C13: with a null joined provider for an alias, a fetch over a page with
\* rows does not fail for it: nothing is called for that alias, its field is
\* unset on every row, and the page is delivered.
C13_NullProviderSkipped ==
    \A c \in Calls :
        (/\ pc[c] \in {"joinPending", "done", "failed"}
         /\ Len(PageOf(c).data) > 0
         /\ \E i \in DOMAIN joinDPs : joinDPs[i] = 0)
        => /\ result[c].err # "TypeError"
           /\ \A k \in DOMAIN dpCalls[c] : dpCalls[c][k].dp # 0
           /\ \A i \in DOMAIN joinDPs : joinDPs[i] = 0 =>
                 \A j \in DOMAIN baseData[c] : baseData[c][j].f[joinAlias[i]] = Unset

\* the provider was called with the method and arguments of the deferred call
Invoked(method, arg) ==
    \E k \in DOMAIN innerCalls :
        innerCalls[k] = [on |-> "provider", method |-> method, arg |-> arg]

\* C14: a call on the deferred provider made before the promise resolves
\* stays pending until it resolves; once settled it carries what the provider
\* answers to the same method and arguments, the provider having been
\* called with them; this['dataProvider'] is assigned at most once.
C14_PendingUntilResolved ==
    /\ assigned <= 1
    /\ \A c \in Calls :
          LET d == deferredCalls[c]
          IN  /\ dataProviderPromise = "pending" =>
                    (d.st \in {"idle", "waiting"} /\ d.next.st \in {"none", "waiting"})
              /\ d.st = "settled" =>
                    /\ dataProviderPromise = "provider"
                    /\ Invoked(d.method, d.arg)
                    /\ d.res = InnerAnswer(d.method, d.arg, 0)
              /\ d.next.st = "settled" =>
                    /\ dataProviderPromise = "provider"
                    /\ Invoked("fetchFirst", d.arg) /\ Invoked("next", d.arg)
                    /\ d.next.res = InnerAnswer("next", d.arg, d.pages)

\* two calls made before the promise resolved, a fetchByKeys and a next() of
\* a fetchFirst iterator, have both settled
C14_Witness ==
    \E c \in Calls, e \in Calls :
        /\ deferredCalls[c].method = "fetchByKeys"
        /\ deferredCalls[c].early /\ deferredCalls[c].st = "settled"
        /\ deferredCalls[e].method = "fetchFirst"
        /\ deferredCalls[e].early /\ deferredCalls[e].next.early
        /\ deferredCalls[e].next.st = "settled"
        /\ assigned = 1

\* C15: when the promise resolves to a value that is not a data provider,
\* every call and every next() that gets that far fails with 'Invalid data
\* type', the value is never stored and none of its methods is invoked.
C15_InvalidValueRejected ==
    dataProviderPromise = "other" =>
        /\ dataProvider = "unset" /\ assigned = 0
        /\ innerCalls = <<>>
        /\ \A c \in Calls :
              LET d == deferredCalls[c]
              IN  /\ d.st \in {"idle", "waiting", "rejected"}
                  /\ d.st = "rejected" => d.err = "Invalid data type"
                  /\ d.next.st \in {"none", "waiting", "rejected"}
                  /\ d.next.st = "rejected" => d.next.err = "Invalid data type"

\* a fetchByOffset and a next() have failed on a value that is no provider
C15_Witness ==
    \E c \in Calls, e \in Calls :
        /\ dataProviderPromise = "other"
        /\ deferredCalls[c].method = "fetchByOffset" /\ deferredCalls[c].st = "rejected"
        /\ deferredCalls[e].method = "fetchFirst" /\ deferredCalls[e].next.st = "rejected"

\* C16: a fetch call has called no joined provider while its base fetch has
\* not resolved; when the base fetch rejects the caller gets the base error
\* and no joined provider was called; a page is delivered only when every
\* joined fetch issued for it has resolved.
C16_BaseThenJoinThenDeliver ==
    \A c \in Calls :
        /\ pc[c] \in {"idle", "iter", "basePending"} =>
              (dpCalls[c] = <<>> /\ promises[c] = <<>>)
        /\ result[c].err = "baseError" =>
              (pc[c] = "failed" /\ result[c].st = "error" /\ dpCalls[c] = <<>>)
        /\ Delivered(c) =>
              \A i \in DOMAIN promises[c] : promises[c][i].st = "call" => i \in settled[c]

\* a page delivered after the joined fetches of both aliases resolved
C16_Witness ==
    \E c \in Calls :
        /\ Delivered(c)
        /\ Len(promises[c]) = 2
        /\ settled[c] = {1, 2}

\* the fetchByKeys calls the fetch call made on the joined provider of alias i
FetchesOf(c, i) ==
    {k \in DOMAIN dpCalls[c] :
        dpCalls[c][k].method = "fetchByKeys" /\ dpCalls[c][k].dp = joinDPs[i]}

\* the lookup key of row j for alias i, null for a null row
RowKey(c, i, j) == IF PageOf(c).data[j].st = "row" THEN LookupKey(c, i, j) ELSE Null

\* C17: for a page of n rows, each fetched alias gets exactly one fetchByKeys
\* call, with n keys, the j-th being the lookup key of row j; a provider
\* without 'batchLookup' is warned about and joined like any other.
C17_OneBatchedCallPerAlias ==
    \A c \in Calls :
        pc[c] \in {"joinPending", "done"} =>
            \A i \in DOMAIN promises[c] :
                /\ i \in warned[c] <=> ~stores[joinDPs[i]].batch
                /\ promises[c][i].st = "call" =>
                      /\ Cardinality(FetchesOf(c, i)) = 1
                      /\ \A k \in FetchesOf(c, i) :
                            /\ Len(dpCalls[c][k].keys) = Len(PageOf(c).data)
                            /\ \A j \in DOMAIN PageOf(c).data :
                                  dpCalls[c][k].keys[j] = RowKey(c, i, j)
                      /\ Delivered(c) =>
                            \A j \in DOMAIN baseData[c] :
                                (baseData[c][j].st = "row" /\ Holds(i, LookupKey(c, i, j))) =>
                                    baseData[c][j].f[joinAlias[i]]
                                        = JoinedRecord(joinDPs[i], LookupKey(c, i, j),
                                                       promises[c][i].attr)

\* a page of two rows joined from a provider without 'batchLookup'
C17_Witness ==
    \E c \in Calls, i \in 1..2 :
        /\ Delivered(c)
        /\ Len(baseData[c]) = 2
        /\ i \in DOMAIN promises[c] /\ promises[c][i].st = "call"
        /\ i \in warned[c]
        /\ \A j \in 1..2 : baseData[c][j].st = "row"
        /\ \E j \in 1..2 : baseData[c][j].f[joinAlias[i]].t = "rec"
        /\ LookupKey(c, i, 1) # LookupKey(c, i, 2)

\* C18: fetchFirst and its iterator ask the base iterator for nothing and
\* call no joined provider; every next() asks the base iterator for one page
\* and the joined fetches carry the keys of that page only; the base
\* iterator's terminal result is passed on with no joined provider called.
C18_JoinsPagePerNext ==
    \A c \in Calls :
        params[c].kind = "fetchFirst" =>
            /\ iterCalls[c].baseNext = iterCalls[c].next
            /\ pc[c] = "iter" => (iterCalls[c] = NoIterCalls /\ dpCalls[c] = <<>>)
            /\ pc[c] \in {"joinPending", "done"} =>
                  /\ PageOf(c).data = BaseFetchByOffset((iterCalls[c].next - 1) * params[c].size,
                                                        params[c].size).data
                  /\ \A k \in DOMAIN dpCalls[c] :
                        dpCalls[c][k].method = "fetchByKeys" =>
                            /\ Len(dpCalls[c][k].keys) = Len(PageOf(c).data)
                            /\ \E i \in DOMAIN joinAlias :
                                  \A j \in DOMAIN PageOf(c).data :
                                      dpCalls[c][k].keys[j] = RowKey(c, i, j)
            /\ result[c].st = "terminal" => (result[c] = Terminal /\ dpCalls[c] = <<>>)

\* the second page of an iterator, joined
C18_Witness ==
    \E c \in Calls :
        /\ params[c].kind = "fetchFirst"
        /\ Delivered(c)
        /\ iterCalls[c].next = 2
        /\ baseData[c][1].f["dept"].t = "rec"

\* the partition of the attributes call c was given
OwnMap(c) == Partitioned(requested[c]).map

\* the joined fetches of call c are those of its own partition: an alias is
\* fetched when the call had no attributes or named it, with what it named
IssuedAsOwn(c) ==
    \A i \in DOMAIN promises[c] :
        /\ promises[c][i].st = "call" <=> (OwnMap(c).null \/ joinAlias[i] \in OwnMap(c).has)
        /\ promises[c][i].st = "call" =>
              promises[c][i].attr = (IF OwnMap(c).null THEN AbsentA
                                     ELSE OwnMap(c).get[joinAlias[i]])

\* the rows of call c carry the aliases of its own partition and no other
MergedAsOwn(c) ==
    \A i \in DOMAIN promises[c], j \in DOMAIN baseData[c] :
        baseData[c][j].st = "row" =>
            (baseData[c][j].f[joinAlias[i]] # Unset
                <=> (OwnMap(c).null \/ joinAlias[i] \in OwnMap(c).has))

\* C19: the join step of a call works from another call's partition only when
\* that call was issued while this one was outstanding; the witness is the
\* interleaving in which it does.
C19_ForeignPartitionOnlyByRace ==
    \A c \in Calls :
        (pc[c] \in {"joinPending", "done"} /\ ~overlapped[c]) =>
            /\ IssuedAsOwn(c)
            /\ Delivered(c) => MergedAsOwn(c)

\* A asked for dept by fetchByOffset, B was issued with attributes that do
\* not name it before A's base fetch resolved: A's page comes without dept
C19_Witness ==
    /\ params["A"].kind = "fetchByOffset" /\ Delivered("A")
    /\ overlapped["A"]
    /\ ~Unnamed("A", "dept")
    /\ requested["B"].has /\ Unnamed("B", "dept")
    /\ promises["A"][1].st = "null"
    /\ \A j \in DOMAIN baseData["A"] : baseData["A"][j].f["dept"] = Unset
    /\ Len(baseData["A"]) > 0

\* C20: every page of a fetchFirst iterator is joined by the partition of the
\* attributes given to that fetchFirst call, whatever other calls were made
\* and completed on the instance in between.
C20_IteratorKeepsOwnPartition ==
    \A c \in Calls :
        (params[c].kind = "fetchFirst" /\ pc[c] \in {"joinPending", "done"}) =>
            /\ IssuedAsOwn(c)
            /\ Delivered(c) => MergedAsOwn(c)

\* the entries of the requested attributes that do not name an alias, in
\* request order
RequestedBase(c) ==
    SelectSeq(requested[c].list, LAMBDA e : e.name \notin Range(joinAlias))

\* C21: an attribute named as an alias goes to the Map of join attributes and
\* not to the base provider; every other one is sent to the base provider as
\* the caller gave it, plain or nested, in request order.
C21_BaseAttributesForwardedAsGiven ==
    \A c \in Calls :
        (pc[c] # "idle" /\ requested[c].has) =>
            /\ Len(baseParams[c].list) >= Len(RequestedBase(c))
            /\ \A k \in DOMAIN RequestedBase(c) : baseParams[c].list[k] = RequestedBase(c)[k]
            /\ \A k \in DOMAIN requested[c].list :
                  requested[c].list[k].name \in Range(joinAlias) =>
                      /\ requested[c].list[k].name \in OwnMap(c).has
                      /\ requested[c].list[k] \notin Range(baseParams[c].list)

\* the declared foreign key field names, alias by alias, in declaration order
RECURSIVE DeclaredFKList(_)
DeclaredFKList(i) ==
    IF i > Len(options) THEN <<>>
    ELSE (IF ~options[i].defined THEN <<>>
          ELSE IF options[i].foreignKey # "" THEN <<options[i].foreignKey>>
          ELSE options[i].foreignKeys) \o DeclaredFKList(i + 1)

\* have followed by the names of fields it does not hold yet, each once
RECURSIVE AppendAbsent(_, _, _)
AppendAbsent(have, fields, k) ==
    IF k > Len(fields) THEN have
    ELSE AppendAbsent(IF Plain(fields[k]) \in Range(have) THEN have
                      ELSE Append(have, Plain(fields[k])),
                      fields, k + 1)

\* C22: the list sent to the base provider is the base attributes followed by
\* the declared foreign key fields that were not in it, each once; an alias
\* without a foreign key descriptor adds no entry.
C22_ForeignKeysAppendedOnce ==
    \A c \in Calls :
        (pc[c] # "idle" /\ requested[c].has) =>
            LET n == Len(RequestedBase(c))
                sent == baseParams[c].list
            IN  /\ Len(sent) >= n
                /\ sent = AppendAbsent(SubSeq(sent, 1, n), DeclaredFKList(1), 1)

\* the lookup key the declaration of alias i gives for a base row
ExpectedKey(i, row) ==
    LET o == options[i]
        fields == IF o.foreignKey # "" THEN <<o.foreignKey>> ELSE o.foreignKeys
        held(x) == IF x \in Range(fields) THEN GetField(row, x) ELSE Unset
    IN  IF row.st # "row" \/ ~o.defined \/ fields = <<>> THEN Null
        ELSE IF o.transform # "" THEN Arr(<<held("a"), held("b")>>)
        ELSE IF o.foreignKey # "" THEN GetField(row, o.foreignKey)
        ELSE Arr([k \in DOMAIN fields |-> GetField(row, fields[k])])

\* C23: foreign key resolution gives one lookup key per row per alias, in row
\* order: null for a null row or an alias without descriptor, the field value
\* or the ordered sequence of field values without a transform, and with a
\* transform its return value over an object holding only the descriptor's
\* fields; the base rows are not modified.
C23_OneLookupKeyPerRowPerAlias ==
    \A c \in Calls :
        pc[c] = "joinPending" =>
            /\ baseData[c] = PageOf(c).data
            /\ Len(fkValues[c]) = Len(options)
            /\ \A i \in DOMAIN options :
                  /\ Len(fkValues[c][i]) = Len(baseData[c])
                  /\ \A j \in DOMAIN baseData[c] :
                        fkValues[c][i][j] = ExpectedKey(i, baseData[c][j])

\* a page with a composite key of two different components is being joined
C23_Witness ==
    \E c \in Calls :
        /\ pc[c] = "joinPending"
        /\ \E i \in DOMAIN options : \E j \in DOMAIN baseData[c] :
              /\ options[i].foreignKeys # <<>>
              /\ options[i].transform = ""
              /\ fkValues[c][i][j] = Arr(<<Num(2), Num(1)>>)

\* alias i is declared with a mapping that has neither foreignKey nor
\* foreignKeys
NoDescriptor(i) ==
    options[i].defined /\ options[i].foreignKey = "" /\ options[i].foreignKeys = <<>>

\* C24: a join declared with neither foreignKey nor foreignKeys is a null
\* join: in every delivered page each non-null row has null under that alias,
\* whatever the other aliases fetched.
C24_MissingDescriptorJoinsNull ==
    \A c \in Calls :
        Delivered(c) =>
            \A i \in DOMAIN promises[c] :
                (NoDescriptor(i) /\ promises[c][i].st = "call") =>
                    \A j \in DOMAIN baseData[c] :
                        baseData[c][j].st = "row" =>
                            baseData[c][j].f[joinAlias[i]] = Null

\* C25: a fetch call leaves the caller's params object as it was, its
\* attributes still naming the aliases; so the same method called again with
\* the same object issues the same joined calls and delivers the same page.
C25_ParamsLeftUnchanged ==
    /\ \A c \in Calls : pc[c] # "idle" => params[c].attributes = requested[c]
    /\ (Delivered("A") /\ Delivered("B") /\ iterCalls["A"] = iterCalls["B"]) =>
            /\ dpCalls["B"] = dpCalls["A"]
            /\ result["B"] = result["A"]

\* an answer of the deferred provider's isEmpty or dispatchEvent is the
\* provider's own
FromProvider ==
    IF query.op = "isEmpty" THEN query.res = InnerIsEmpty
    ELSE query.res = InnerDispatchEvent /\ Invoked("dispatchEvent", 1)

\* such an answer is the one given without a provider
WithoutProvider ==
    IF query.op = "isEmpty" THEN query.res = Str("unknown")
    ELSE query.res = Str("false") /\ ~Invoked("dispatchEvent", 1)

\* C26 as stated: once the promise has resolved to a valid provider, isEmpty
\* returns the provider's isEmpty() and dispatchEvent forwards to it, whether
\* or not a data method or a listener registration was called before.
C26_UnknownOnlyWhileUnresolved ==
    (query.op \in {"isEmpty", "dispatchEvent"} /\ query.name = "provider") => FromProvider

\* C26 amended: isEmpty returns the provider's isEmpty(), and dispatchEvent
\* forwards to the provider, exactly when the promise had resolved to a valid
\* provider and the callback of a data method or of a listener registration
\* had run; in every other case isEmpty returns 'unknown' and dispatchEvent
\* returns false and forwards nothing.
C26_UnknownUntilCallbackStores ==
    query.op \in {"isEmpty", "dispatchEvent"} =>
        IF query.name = "provider" /\ query.st = "afterCallback"
        THEN FromProvider
        ELSE WithoutProvider

\* isEmpty was asked after the promise resolved to a provider and after a
\* listener registration's callback ran, and gave the provider's answer
C26_Witness ==
    /\ query.op = "isEmpty" /\ query.name = "provider" /\ query.st = "afterCallback"
    /\ query.res = InnerIsEmpty
    /\ \E c \in Calls : deferredCalls[c].st = "registered"

====
